---- MODULE Spec2Model ----
(***************************************************************************)
(* brewd: the friendship relation user_friendships and the queries of      *)
(* backend/db/queries/analytics.sql that write it, run by concurrent       *)
(* callers against one PostgreSQL store.                                   *)
(*                                                                         *)
(* The table is the committed state every caller reads.  A single-statement*)
(* query is one atomic step; AcceptFriendRequest is the two-statement      *)
(* transaction BEGIN; Update; Insert; COMMIT of analytics.sql:386-390, so  *)
(* it is three steps of one caller, with its writes staged until COMMIT    *)
(* and the rows it wrote locked against the other callers.                 *)
(*                                                                         *)
(* Next to it: the notification table and the queries of notification.sql  *)
(* (Notify is the duplicate check followed by the insert, two statements   *)
(* of one caller), the post_likes table and the like queries of            *)
(* interaction.sql, and GetUserFeed of post.sql, which reads               *)
(* user_friendships and post.  Each has its own specification; the         *)
(* variables of the others stay as they are.                               *)
(***************************************************************************)
EXTENDS Integers, FiniteSets, Sequences, TLC

\* ------------------------------------------------------------------ bounds
\* User ids are opaque strings (ULIDs).  Every operation is on one ordered
\* pair, so two users give each pair both of its rows and the self pairs.
Users == {"u1", "u2"}

\* Number of request-handling workers that can hold a transaction open.
NumCallers == 2

Callers == 1..NumCallers

\* ------------------------------------------------------------------ schema
\* status VARCHAR(50) CHECK (status IN ('pending','accepted','blocked'))
Statuses == {"pending", "accepted", "blocked"}

\* CheckFriendshipStatus returns NULL when the pair has no row.
NoRow == "none"

Keys == Users \X Users

\* What the store answers to a statement.
\*   ok               the statement returned its row (or :exec ran)
\*   no_rows          a :one statement matched no row (NotFound)
\*   unique_violation PRIMARY KEY (user_id, friend_id) refused the insert (Conflict)
\*   check_violation  check_no_self_friendship refused the row (InvariantViolation)
\*   aborted          the transaction was rolled back by its caller
Outcomes == {"ok", "no_rows", "unique_violation", "check_violation", "aborted"}

NoUser == "-"

VARIABLES
    user_friendships,   \* [Keys -> Statuses \cup {NoRow}], the committed table
                        \* (in SpecFeed over the pairs of Members)
    tx,                 \* [Callers -> [pc, requester, accepter]], open transactions
    last,               \* the last finished call and what it did (history)
    returned,           \* [Callers -> outcome of the caller's accept], kept by SpecAccept2
    notification,       \* [NotificationIds -> row or NoNotification], the notification table
    now,                \* NOW() of the store, in hours
    notifying,          \* the Notify call between its duplicate check and its insert
    lastN,              \* the last finished notification call (history)
    post,               \* [PostIds -> row or NoPost], the post table
    post_likes,         \* [LikeKeys -> number of rows of the key], the post_likes table
    comment,            \* [CommentIds -> post_id or NoComment], the comment table
    feed,               \* the rows the last GetUserFeed call returned, and for whom
    lastLike,           \* the last finished like call (history)
    mutual,             \* the users the last GetMutualFriends call returned, and for whom
    newPool             \* the NewPool call of the server: its locals and what it did

friendVars == <<user_friendships, tx, last, returned>>

notificationVars == <<notification, now, notifying, lastN>>

contentVars == <<post, post_likes, comment, feed, lastLike>>

otherVars == <<mutual, newPool>>

vars == <<friendVars, notificationVars, contentVars, otherVars>>

self_friendship_unchecked(a, b) == TRUE

\* check_no_self_friendship CHECK (user_id != friend_id)
check_no_self_friendship(a, b) == a # b

\* ------------------------------------------------------- the statements
\* Each statement is a function of the table it runs on: the table after
\* it and the store's answer.

Row(tbl, a, b) == tbl[<<a, b>>]

Answer(tbl, res) == [tbl |-> tbl, res |-> res]

\* CheckFriendshipStatus: SELECT status ... WHERE user_id = $1 AND friend_id = $2
CheckFriendshipStatus(tbl, a, b) == Row(tbl, a, b)

\* SendFriendRequest: INSERT ... VALUES ($1, $2, 'pending').  The CHECK
\* constraint is evaluated on the new row before the primary key index.
SendFriendRequest(tbl, a, b) ==
    IF ~check_no_self_friendship(a, b) THEN Answer(tbl, "check_violation")
    ELSE IF Row(tbl, a, b) # NoRow THEN Answer(tbl, "unique_violation")
    ELSE Answer([tbl EXCEPT ![<<a, b>>] = "pending"], "ok")

\* The UPDATE with its status filter widened to an accept that may repeat:
\* WHERE ... AND status IN ('pending', 'accepted').
AcceptUpdateAlsoAccepted(tbl, requester, accepter) ==
    IF Row(tbl, requester, accepter) \in {"pending", "accepted"}
    THEN Answer([tbl EXCEPT ![<<requester, accepter>>] = "accepted"], "ok")
    ELSE Answer(tbl, "no_rows")

\* The UPDATE without its status filter: WHERE user_id = $1 AND friend_id = $2.
AcceptUpdateAnyStatus(tbl, requester, accepter) ==
    IF Row(tbl, requester, accepter) # NoRow
    THEN Answer([tbl EXCEPT ![<<requester, accepter>>] = "accepted"], "ok")
    ELSE Answer(tbl, "no_rows")

\* AcceptFriendRequestUpdate: UPDATE ... SET status = 'accepted'
\* WHERE user_id = $1 AND friend_id = $2 AND status = 'pending'
AcceptFriendRequestUpdate(tbl, requester, accepter) ==
    IF Row(tbl, requester, accepter) = "pending"
    THEN Answer([tbl EXCEPT ![<<requester, accepter>>] = "accepted"], "ok")
    ELSE Answer(tbl, "no_rows")

\* The INSERT without its status column, which then takes DEFAULT 'pending'.
AcceptInsertDefaultStatus(tbl, requester, accepter) ==
    IF ~check_no_self_friendship(accepter, requester) THEN Answer(tbl, "check_violation")
    ELSE IF Row(tbl, accepter, requester) # NoRow THEN Answer(tbl, "unique_violation")
    ELSE Answer([tbl EXCEPT ![<<accepter, requester>>] = "pending"], "ok")

\* The INSERT with ON CONFLICT DO NOTHING: a collision counts as done.
AcceptInsertOnConflictDoNothing(tbl, requester, accepter) ==
    IF ~check_no_self_friendship(accepter, requester) THEN Answer(tbl, "check_violation")
    ELSE IF Row(tbl, accepter, requester) # NoRow THEN Answer(tbl, "ok")
    ELSE Answer([tbl EXCEPT ![<<accepter, requester>>] = "accepted"], "ok")

\* AcceptFriendRequestInsert: INSERT ... VALUES ($2, $1, 'accepted')
AcceptFriendRequestInsert(tbl, requester, accepter) ==
    IF ~check_no_self_friendship(accepter, requester) THEN Answer(tbl, "check_violation")
    ELSE IF Row(tbl, accepter, requester) # NoRow THEN Answer(tbl, "unique_violation")
    ELSE Answer([tbl EXCEPT ![<<accepter, requester>>] = "accepted"], "ok")

RejectAnyStatus(tbl, a, b) ==
    IF Row(tbl, a, b) # NoRow
    THEN Answer([tbl EXCEPT ![<<a, b>>] = NoRow], "ok")
    ELSE Answer(tbl, "no_rows")

\* RejectFriendRequest: DELETE ... WHERE user_id = $1 AND friend_id = $2
\* AND status = 'pending'
RejectFriendRequest(tbl, a, b) ==
    IF Row(tbl, a, b) = "pending"
    THEN Answer([tbl EXCEPT ![<<a, b>>] = NoRow], "ok")
    ELSE Answer(tbl, "no_rows")

\* The DELETE without its OR branch: only row (a,b) goes.
UnfriendOneDirection(tbl, a, b) ==
    Answer([k \in Keys |-> IF k = <<a, b>> THEN NoRow ELSE tbl[k]], "ok")

\* Unfriend :exec  DELETE ... WHERE (user_id = $1 AND friend_id = $2)
\*                               OR (user_id = $2 AND friend_id = $1)
\* No status filter, and :exec hands back no row count, so the answer is
\* ok whatever the number of rows deleted.
Unfriend(tbl, a, b) ==
    Answer([k \in Keys |-> IF k = <<a, b>> \/ k = <<b, a>> THEN NoRow ELSE tbl[k]], "ok")

\* A block that also disconnects: the reverse row is deleted with it.
BlockUserAndDisconnect(tbl, blocker, blocked) ==
    IF ~check_no_self_friendship(blocker, blocked) THEN Answer(tbl, "check_violation")
    ELSE Answer([k \in Keys |-> IF k = <<blocker, blocked>> THEN "blocked"
                                ELSE IF k = <<blocked, blocker>> THEN NoRow
                                ELSE tbl[k]], "ok")

\* The INSERT without ON CONFLICT: an existing row refuses it.
BlockUserInsertOnly(tbl, blocker, blocked) ==
    IF ~check_no_self_friendship(blocker, blocked) THEN Answer(tbl, "check_violation")
    ELSE IF Row(tbl, blocker, blocked) # NoRow THEN Answer(tbl, "unique_violation")
    ELSE Answer([tbl EXCEPT ![<<blocker, blocked>>] = "blocked"], "ok")

\* BlockUser: INSERT ... VALUES ($1, $2, 'blocked')
\* ON CONFLICT (user_id, friend_id) DO UPDATE SET status = 'blocked'
BlockUser(tbl, blocker, blocked) ==
    IF ~check_no_self_friendship(blocker, blocked) THEN Answer(tbl, "check_violation")
    ELSE Answer([tbl EXCEPT ![<<blocker, blocked>>] = "blocked"], "ok")

UnblockAnyStatus(tbl, blocker, blocked) ==
    IF Row(tbl, blocker, blocked) # NoRow
    THEN Answer([tbl EXCEPT ![<<blocker, blocked>>] = NoRow], "ok")
    ELSE Answer(tbl, "no_rows")

\* UnblockUser: DELETE ... WHERE user_id = $1 AND friend_id = $2
\* AND status = 'blocked'
UnblockUser(tbl, blocker, blocked) ==
    IF Row(tbl, blocker, blocked) = "blocked"
    THEN Answer([tbl EXCEPT ![<<blocker, blocked>>] = NoRow], "ok")
    ELSE Answer(tbl, "no_rows")

\* --------------------------------------------------------- transactions
Idle == [pc |-> "idle", requester |-> NoUser, accepter |-> NoUser]

InFlight(t) == tx[t].pc \in {"updated", "inserted"}

\* Row locks an open transaction holds: the row it updated, and the key it
\* inserted.  A statement of another caller on a locked key waits.
LockedBy(t) ==
    CASE tx[t].pc = "updated"  -> {<<tx[t].requester, tx[t].accepter>>}
      [] tx[t].pc = "inserted" -> {<<tx[t].requester, tx[t].accepter>>,
                                   <<tx[t].accepter, tx[t].requester>>}
      [] OTHER -> {}

Free(keys, t) == \A u \in Callers \ {t} : keys \cap LockedBy(u) = {}

FreeForAll(keys) == \A u \in Callers : keys \cap LockedBy(u) = {}

\* Reading the writes of an open transaction, as when the two statements
\* run without BEGIN and each commits on its own.
VisibleUncommitted(committed, written) == written

\* What the other callers read while a transaction is open: the committed
\* table; the transaction's own writes are staged until COMMIT.
Visible(committed, written) == committed

\* COMMIT of the accept transaction: both writes reach the table at once.
AcceptFriendRequestCommit(tbl, requester, accepter) ==
    AcceptFriendRequestInsert(
        AcceptFriendRequestUpdate(tbl, requester, accepter).tbl,
        requester, accepter).tbl

\* The finished call, the pair's two rows as they were when it finished,
\* and whether every row outside the pair is as it was.
Finished(op, a, b, res, newtbl) ==
    [op |-> op, a |-> a, b |-> b, res |-> res,
     pab |-> user_friendships[<<a, b>>],
     pba |-> user_friendships[<<b, a>>],
     others |-> \A k \in Keys \ {<<a, b>>, <<b, a>>} : newtbl[k] = user_friendships[k]]

\* One single-statement call: it waits for the locks on the keys it
\* touches, runs on the committed table and commits.
Statement(op, keys, ans, a, b) ==
    /\ FreeForAll(keys)
    /\ user_friendships' = ans.tbl
    /\ last' = Finished(op, a, b, ans.res, ans.tbl)
    /\ UNCHANGED <<tx, returned, notificationVars, contentVars, otherVars>>

SendRequest(a, b) ==
    Statement("SendRequest", {<<a, b>>}, SendFriendRequest(user_friendships, a, b), a, b)

RejectRequest(a, b) ==
    Statement("RejectRequest", {<<a, b>>}, RejectFriendRequest(user_friendships, a, b), a, b)

UnfriendCall(a, b) ==
    Statement("Unfriend", {<<a, b>>, <<b, a>>}, Unfriend(user_friendships, a, b), a, b)

Block(a, b) ==
    Statement("Block", {<<a, b>>}, BlockUser(user_friendships, a, b), a, b)

Unblock(a, b) ==
    Statement("Unblock", {<<a, b>>}, UnblockUser(user_friendships, a, b), a, b)

\* A worker is free (it takes any call and forgets the outcome) or runs
\* one scripted call, whose arguments and outcome it keeps.
Scripted(t) == returned[t] # "free"

Return(t, res) ==
    returned' = IF Scripted(t) THEN [returned EXCEPT ![t] = res] ELSE returned

Close(t) == IF Scripted(t) THEN [tx[t] EXCEPT !.pc = "done"] ELSE Idle

\* AcceptRequest, step 1: BEGIN and the UPDATE.  Zero rows end the call
\* (:one reports no row) with nothing written.
AcceptUpdate(t, requester, accepter) ==
    LET ans == AcceptFriendRequestUpdate(user_friendships, requester, accepter) IN
    /\ \/ tx[t].pc = "idle" /\ ~Scripted(t)
       \/ tx[t] = [pc |-> "called", requester |-> requester, accepter |-> accepter]
    /\ Free({<<requester, accepter>>}, t)
    /\ UNCHANGED <<notificationVars, contentVars, otherVars>>
    /\ IF ans.res = "ok"
       THEN /\ tx' = [tx EXCEPT ![t] = [pc |-> "updated", requester |-> requester,
                                        accepter |-> accepter]]
            /\ user_friendships' = Visible(user_friendships, ans.tbl)
            /\ UNCHANGED <<last, returned>>
       ELSE /\ tx' = [tx EXCEPT ![t] = Close(t)]
            /\ UNCHANGED user_friendships
            /\ last' = Finished("AcceptRequest", requester, accepter, ans.res,
                                user_friendships)
            /\ Return(t, ans.res)

\* The table as the open transaction of t reads it: its own update applied.
TxTable(t) ==
    AcceptFriendRequestUpdate(user_friendships, tx[t].requester, tx[t].accepter).tbl

\* AcceptRequest, step 2: the INSERT of the reverse row.  A key collision
\* is an error inside the transaction, which rolls it back.
AcceptInsert(t) ==
    LET r == tx[t].requester
        a == tx[t].accepter
        ans == AcceptFriendRequestInsert(TxTable(t), r, a) IN
    /\ tx[t].pc = "updated"
    /\ UNCHANGED <<notificationVars, contentVars, otherVars>>
    /\ Free({<<a, r>>}, t)
    /\ IF ans.res = "ok"
       THEN /\ tx' = [tx EXCEPT ![t].pc = "inserted"]
            /\ user_friendships' = Visible(user_friendships, ans.tbl)
            /\ UNCHANGED <<last, returned>>
       ELSE /\ tx' = [tx EXCEPT ![t] = Close(t)]
            /\ UNCHANGED user_friendships
            /\ last' = Finished("AcceptRequest", r, a, ans.res, user_friendships)
            /\ Return(t, ans.res)

\* AcceptRequest, step 3: COMMIT.
AcceptCommit(t) ==
    LET r == tx[t].requester
        a == tx[t].accepter
        tbl == AcceptFriendRequestCommit(user_friendships, r, a) IN
    /\ tx[t].pc = "inserted"
    /\ UNCHANGED <<notificationVars, contentVars, otherVars>>
    /\ user_friendships' = tbl
    /\ tx' = [tx EXCEPT ![t] = Close(t)]
    /\ last' = Finished("AcceptRequest", r, a, "ok", tbl)
    /\ Return(t, "ok")

\* The caller gives up between BEGIN and COMMIT (failure, deadline,
\* cancellation): ROLLBACK.
AcceptAbort(t) ==
    /\ InFlight(t)
    /\ UNCHANGED <<notificationVars, contentVars, otherVars>>
    /\ tx' = [tx EXCEPT ![t] = Close(t)]
    /\ UNCHANGED user_friendships
    /\ last' = Finished("AcceptRequest", tx[t].requester, tx[t].accepter, "aborted",
                        user_friendships)
    /\ Return(t, "aborted")

\* ---------------------------------------------------------------- mutual friends
MutualFriendsAnyStatus(tbl, a, b) ==
    {k1[2] : k1 \in {k \in DOMAIN tbl :
                        /\ k[1] = a /\ tbl[k] # NoRow
                        /\ \E k2 \in DOMAIN tbl :
                               k2[1] = b /\ k2[2] = k[2] /\ tbl[k2] # NoRow}}

\* name: GetMutualFriends :many
\* The users whose id is among the friend_id of the join of f1 (rows of
\* $1) and f2 (rows of $2) on friend_id, both rows accepted.
GetMutualFriends(tbl, a, b) ==
    {k1[2] : k1 \in {k \in DOMAIN tbl :
                        /\ k[1] = a /\ tbl[k] = "accepted"
                        /\ \E k2 \in DOMAIN tbl :
                               k2[1] = b /\ k2[2] = k[2] /\ tbl[k2] = "accepted"}}

NoMutual == [a |-> NoUser, b |-> NoUser, users |-> {}]

MutualCall(a, b) ==
    /\ mutual' = [a |-> a, b |-> b, users |-> GetMutualFriends(user_friendships, a, b)]
    /\ UNCHANGED <<newPool, friendVars, notificationVars, contentVars>>

\* ---------------------------------------------------------------- notifications
\* The notification table: id is the primary key, is_read defaults to
\* false and created_at to NOW(); nothing is unique but the id.
MaxNotifications == 2

NotificationIds == 1..MaxNotifications

\* The row of an id that the table does not hold.
NoNotification == [stored |-> FALSE]

NullRef == "NULL"

NotificationTypes == {"like", "comment"}

ReferenceIds == {"p1", NullRef}

\* The clock runs from 0 to MaxTime hours.
MaxTime == 1

\* The window the caller hands to the duplicate check, in hours.
DedupHours == 1

\* INTERVAL '1 day' in hours.
HoursPerDay == 24

\* The days_old the caller hands to the purge: 0..MaxDays.
MaxDays == 1

NoId == 0

Stored(tbl) == {i \in DOMAIN tbl : tbl[i] # NoNotification}

\* x = y of SQL in a WHERE clause: never true when a side is NULL.
SqlEquals(x, y) == x # NullRef /\ y # NullRef /\ x = y

\* name: CreateNotification :one   (a plain INSERT)
CreateNotification(tbl, id, recipient, actor, type, ref, at) ==
    IF tbl[id] # NoNotification THEN Answer(tbl, "unique_violation")
    ELSE Answer([tbl EXCEPT ![id] =
                    [recipient_user_id |-> recipient, actor_user_id |-> actor,
                     type |-> type, reference_id |-> ref,
                     is_read |-> FALSE, created_at |-> at]], "ok")

\* name: CheckForDuplicateNotification :one   (SELECT EXISTS)
CheckForDuplicateNotification(tbl, recipient, actor, type, ref, hours, at) ==
    \E i \in Stored(tbl) :
        /\ tbl[i].recipient_user_id = recipient
        /\ tbl[i].actor_user_id = actor
        /\ tbl[i].type = type
        /\ SqlEquals(tbl[i].reference_id, ref)
        /\ tbl[i].created_at > at - hours

MarkReadAnyRecipient(tbl, id, recipient) ==
    IF tbl[id] # NoNotification
    THEN Answer([tbl EXCEPT ![id].is_read = TRUE], "ok")
    ELSE Answer(tbl, "no_rows")

MarkReadUnreadOnly(tbl, id, recipient) ==
    IF tbl[id] # NoNotification /\ tbl[id].recipient_user_id = recipient
       /\ ~tbl[id].is_read
    THEN Answer([tbl EXCEPT ![id].is_read = TRUE], "ok")
    ELSE Answer(tbl, "no_rows")

\* name: MarkNotificationAsRead :one
\* UPDATE ... SET is_read = true WHERE id = $1 AND recipient_user_id = $2
MarkNotificationAsRead(tbl, id, recipient) ==
    IF tbl[id] # NoNotification /\ tbl[id].recipient_user_id = recipient
    THEN Answer([tbl EXCEPT ![id].is_read = TRUE], "ok")
    ELSE Answer(tbl, "no_rows")

\* name: MarkAllNotificationsAsRead :many
\* UPDATE ... WHERE recipient_user_id = $1 AND is_read = false
MarkAllNotificationsAsRead(tbl, recipient) ==
    Answer([i \in DOMAIN tbl |->
               IF tbl[i] # NoNotification /\ tbl[i].recipient_user_id = recipient
                  /\ ~tbl[i].is_read
               THEN [tbl[i] EXCEPT !.is_read = TRUE] ELSE tbl[i]], "ok")

\* name: DeleteNotification :one
DeleteNotification(tbl, id, recipient) ==
    IF tbl[id] # NoNotification /\ tbl[id].recipient_user_id = recipient
    THEN Answer([tbl EXCEPT ![id] = NoNotification], "ok")
    ELSE Answer(tbl, "no_rows")

\* name: GetUnreadNotificationCount :one
GetUnreadNotificationCount(tbl, recipient) ==
    Cardinality({i \in Stored(tbl) :
                    tbl[i].recipient_user_id = recipient /\ ~tbl[i].is_read})

PurgeReadOfAnyAge(tbl, recipient, days, at) ==
    Answer([i \in DOMAIN tbl |->
               IF tbl[i] # NoNotification /\ tbl[i].recipient_user_id = recipient
                  /\ tbl[i].is_read
               THEN NoNotification ELSE tbl[i]], "ok")

\* name: DeleteOldReadNotifications :many
\* DELETE ... WHERE recipient_user_id = $1 AND is_read = true
\*   AND created_at < NOW() - INTERVAL '1 day' * $2
DeleteOldReadNotifications(tbl, recipient, days, at) ==
    Answer([i \in DOMAIN tbl |->
               IF tbl[i] # NoNotification /\ tbl[i].recipient_user_id = recipient
                  /\ tbl[i].is_read /\ tbl[i].created_at < at - HoursPerDay * days
               THEN NoNotification ELSE tbl[i]], "ok")

\* What a caller hands to Notify.
NotifyCalls ==
    [recipient : Users, actor : Users, type : NotificationTypes, ref : ReferenceIds]

NoNotify == [recipient |-> NoUser, actor |-> NoUser, type |-> "none", ref |-> NullRef]

NotifyIdle == \A t \in Callers : notifying[t] = NoNotify

\* The id the caller generates for a new row: one that no row holds.
NewId(tbl) ==
    CHOOSE i \in DOMAIN tbl \ Stored(tbl) : \A j \in DOMAIN tbl \ Stored(tbl) : i <= j

\* The rows of the table that differ between before and after.
Changed(before, after) == Cardinality({i \in DOMAIN before : before[i] # after[i]})

FinishedN(op, res, id, recipient, changed) ==
    [op |-> op, res |-> res, id |-> id, recipient |-> recipient, changed |-> changed]

\* Notify, step 1: the duplicate check.  A duplicate ends the call with
\* DuplicateSuppressed and nothing written.
NotifyCheck(t, c) ==
    /\ notifying[t] = NoNotify
    /\ Stored(notification) # NotificationIds
    /\ IF CheckForDuplicateNotification(notification, c.recipient, c.actor, c.type,
                                        c.ref, DedupHours, now)
       THEN /\ lastN' = FinishedN("Notify", "DuplicateSuppressed", NoId, c.recipient, 0)
            /\ UNCHANGED notifying
       ELSE /\ notifying' = [notifying EXCEPT ![t] = c]
            /\ UNCHANGED lastN
    /\ UNCHANGED <<notification, now, friendVars, contentVars, otherVars>>

\* Notify, step 2: the INSERT; created_at is NOW() of the insert.
NotifyInsert(t) ==
    LET c == notifying[t]
        id == NewId(notification)
        ans == CreateNotification(notification, id, c.recipient, c.actor, c.type,
                                  c.ref, now) IN
    /\ c # NoNotify
    /\ Stored(notification) # NotificationIds
    /\ notification' = ans.tbl
    /\ notifying' = [notifying EXCEPT ![t] = NoNotify]
    /\ lastN' = FinishedN("Notify", ans.res, id, c.recipient,
                        Changed(notification, ans.tbl))
    /\ UNCHANGED <<now, friendVars, contentVars, otherVars>>

\* A statement on the notification table that a caller issues on its own.
StatementN(op, ans, id, recipient) ==
    /\ notification' = ans.tbl
    /\ lastN' = FinishedN(op, ans.res, id, recipient, Changed(notification, ans.tbl))
    /\ UNCHANGED <<now, notifying, friendVars, contentVars, otherVars>>

MarkRead(id, recipient) ==
    StatementN("MarkRead", MarkNotificationAsRead(notification, id, recipient),
               id, recipient)

MarkAllRead(recipient) ==
    StatementN("MarkAllRead", MarkAllNotificationsAsRead(notification, recipient),
               NoId, recipient)

DeleteOne(id, recipient) ==
    StatementN("Delete", DeleteNotification(notification, id, recipient),
               id, recipient)

Purge(recipient, days) ==
    StatementN("Purge", DeleteOldReadNotifications(notification, recipient, days, now),
               NoId, recipient)

\* An hour passes.
Tick ==
    /\ now < MaxTime
    /\ now' = now + 1
    /\ UNCHANGED <<notification, notifying, lastN, friendVars, contentVars, otherVars>>

NotificationsIdle ==
    /\ notification = [i \in NotificationIds |-> NoNotification]
    /\ now = 0
    /\ notifying = [t \in Callers |-> NoNotify]
    /\ lastN = FinishedN("none", "ok", NoId, NoUser, 0)

\* ---------------------------------------------------------------- posts, likes, feed
\* The users of the content tables: a third user next to the two of the
\* friendship calls, for a reader who is nobody's friend.
Members == Users \cup {"u3"}

MaxPosts == 2

PostIds == 1..MaxPosts

NoPost == [stored |-> FALSE]

Visibilities == {"public", "friends", "private"}

PostRows == [owner_id : Members, visibility : Visibilities, created_at : 0..MaxTime]

PostsStored(posts) == {p \in DOMAIN posts : posts[p] # NoPost}

LikeKeys == PostIds \X Members

\* comment(id TEXT PRIMARY KEY, post_id ...): up to MaxComments comments.
MaxComments == 2

CommentIds == 1..MaxComments

NoComment == 0

RECURSIVE CountRows(_, _)
\* COUNT(*) over the rows of a table kept as key -> number of rows.
CountRows(tbl, keys) ==
    IF keys = {} THEN 0
    ELSE LET k == CHOOSE x \in keys : TRUE IN tbl[k] + CountRows(tbl, keys \ {k})

LikePostPlainInsert(likes, posts, post_id, user_id) ==
    IF posts[post_id] = NoPost THEN Answer(likes, "foreign_key_violation")
    ELSE Answer([likes EXCEPT ![<<post_id, user_id>>] = @ + 1], "ok")

\* name: LikePost :one
\* INSERT ... ON CONFLICT (post_id, user_id) DO NOTHING RETURNING ...
\* On a conflict nothing is written and no row comes back.
LikePost(likes, posts, post_id, user_id) ==
    IF posts[post_id] = NoPost THEN Answer(likes, "foreign_key_violation")
    ELSE IF likes[<<post_id, user_id>>] > 0 THEN Answer(likes, "no_rows")
    ELSE Answer([likes EXCEPT ![<<post_id, user_id>>] = @ + 1], "ok")

\* name: UnlikePost :one
UnlikePost(likes, post_id, user_id) ==
    IF likes[<<post_id, user_id>>] > 0
    THEN Answer([likes EXCEPT ![<<post_id, user_id>>] = 0], "ok")
    ELSE Answer(likes, "no_rows")

\* name: GetPostLikeCount :one   (SELECT COUNT(*) ... WHERE post_id = $1)
GetPostLikeCount(likes, post_id) ==
    CountRows(likes, {k \in DOMAIN likes : k[1] = post_id})

FinishedLike(op, post_id, user_id, res, had, count) ==
    [op |-> op, post_id |-> post_id, user_id |-> user_id, res |-> res,
     had |-> had, count |-> count]

StatementLike(op, post_id, user_id, ans) ==
    /\ post_likes' = ans.tbl
    /\ lastLike' = FinishedLike(op, post_id, user_id, ans.res,
                                post_likes[<<post_id, user_id>>],
                                GetPostLikeCount(post_likes, post_id))
    /\ UNCHANGED <<post, comment, feed, friendVars, notificationVars, otherVars>>

Like(post_id, user_id) ==
    StatementLike("Like", post_id, user_id, LikePost(post_likes, post, post_id, user_id))

Unlike(post_id, user_id) ==
    StatementLike("Unlike", post_id, user_id, UnlikePost(post_likes, post_id, user_id))

FeedWhereAnyVisibility(friends, posts, user, p) ==
    friends[<<user, posts[p].owner_id>>] = "accepted"

FeedWhereAnyStatus(friends, posts, user, p) ==
    /\ friends[<<user, posts[p].owner_id>>] # NoRow
    /\ posts[p].visibility \in {"public", "friends"}

\* GetUserFeed, the join with user_friendships and the WHERE clause:
\* a row (user, owner of the post) with status accepted, and a post that
\* is public or for friends.  The key of user_friendships leaves one
\* such row at most, so a post is joined once.
FeedWhere(friends, posts, user, p) ==
    /\ friends[<<user, posts[p].owner_id>>] = "accepted"
    /\ posts[p].visibility \in {"public", "friends"}

\* ORDER BY p.created_at DESC: rows of equal created_at in any order.
FeedOrderBy(posts, rows) ==
    \A i, j \in 1..Len(rows) :
        i < j => posts[rows[i]].created_at >= posts[rows[j]].created_at

\* The orders in which the store may hand out the selected posts.
FeedOrders(posts, selected) ==
    {rows \in [1..Cardinality(selected) -> selected] :
        /\ \A i, j \in 1..Cardinality(selected) : i # j => rows[i] # rows[j]
        /\ FeedOrderBy(posts, rows)}

\* LIMIT $2 OFFSET $3
LimitOffset(rows, limit, offset) ==
    IF offset >= Len(rows) THEN <<>>
    ELSE SubSeq(rows, offset + 1,
                IF offset + limit < Len(rows) THEN offset + limit ELSE Len(rows))

\* name: GetUserFeed :many   (the sequences of post ids it may return)
GetUserFeed(friends, posts, user, limit, offset) ==
    {LimitOffset(rows, limit, offset) :
        rows \in FeedOrders(posts, {p \in PostsStored(posts) :
                                       FeedWhere(friends, posts, user, p)})}

\* LEFT JOIN post_likes pl ON p.id = pl.post_id: the user_id of the like
\* rows of the post, or one NULL when the post has none.
FeedJoinLikes(likes, p) ==
    IF \A u \in Members : likes[<<p, u>>] = 0 THEN {NullRef}
    ELSE {u \in Members : likes[<<p, u>>] > 0}

\* LEFT JOIN comment c ON p.id = c.post_id: the id of the comments of the
\* post, or one NULL (NoComment) when the post has none.
FeedJoinComments(comments, p) ==
    IF \A c \in CommentIds : comments[c] # p THEN {NoComment}
    ELSE {c \in CommentIds : comments[c] = p}

\* The joined rows of one post, the group of GROUP BY p.id, ...: every
\* like row beside every comment row, as <<pl.user_id, c.id>>.
FeedJoin(likes, comments, p) == FeedJoinLikes(likes, p) \X FeedJoinComments(comments, p)

LikeCountAllRows(join) == Cardinality({r \in join : r[1] # NullRef})

\* COUNT(DISTINCT pl.user_id) as like_count
LikeCount(join) == Cardinality({r[1] : r \in join} \ {NullRef})

\* COUNT(DISTINCT c.id) as comment_count
CommentCount(join) == Cardinality({r[2] : r \in join} \ {NoComment})

\* EXISTS(SELECT 1 FROM post_likes pl2 WHERE pl2.post_id = p.id AND
\* pl2.user_id = $1) as liked_by_current_user
LikedByCurrentUser(likes, p, user) == likes[<<p, user>>] > 0

\* The aggregate columns of the returned posts, in the order of the rows.
FeedColumns(likes, comments, user, rows) ==
    [i \in 1..Len(rows) |->
        [like_count |-> LikeCount(FeedJoin(likes, comments, rows[i])),
         comment_count |-> CommentCount(FeedJoin(likes, comments, rows[i])),
         liked_by_current_user |-> LikedByCurrentUser(likes, rows[i], user)]]

NoFeed == [user |-> NoUser, rows |-> <<>>, columns |-> <<>>]

FeedCall(user, limit, offset) ==
    /\ \E rows \in GetUserFeed(user_friendships, post, user, limit, offset) :
           feed' = [user |-> user, rows |-> rows,
                    columns |-> FeedColumns(post_likes, comment, user, rows)]
    /\ UNCHANGED <<post, post_likes, comment, lastLike, friendVars, notificationVars, otherVars>>

ContentIdle ==
    /\ post = [p \in PostIds |-> NoPost]
    /\ post_likes = [k \in LikeKeys |-> 0]
    /\ comment = [c \in CommentIds |-> NoComment]
    /\ feed = NoFeed
    /\ lastLike = FinishedLike("none", 0, NoUser, "ok", 0, 0)

\* ---------------------------------------------------------------- NewPool
\* pkg/database/pool.go, NewPool(ctx, config).  newPool holds the call:
\*   pc         where the call is
\*   config     "nil", "unparsable" (ParseConfig fails) or "valid"
\*   MaxRetries config.MaxRetries
\*   i, err     the locals; err is "nil" or the error of the last attempt
\*   pool       the local: "nil", "open", or "closed" (Close was called on it)
\*   attempts   calls of pgxpool.NewWithConfig
\*   sleeps     calls of time.Sleep(config.RetryInterval)
\*   unclosed   pools opened and never closed, the returned one not counted
\*   ret        what the call returned
\* MaxRetries: 5 in LoadConfigFromEnv; Config is an exported struct, so a
\* caller can hand over any int, -1 here for the negative ones.
DefaultMaxRetries == 5

NewPoolCalled(config, retries) ==
    [pc |-> "called", config |-> config, MaxRetries |-> retries, i |-> 0,
     err |-> "nil", pool |-> "nil", attempts |-> 0, sleeps |-> 0, unclosed |-> 0,
     ret |-> "none"]

NoNewPool == [NewPoolCalled("none", 0) EXCEPT !.pc = "idle"]

PoolStep(next) ==
    /\ newPool' = next
    /\ UNCHANGED <<mutual, friendVars, notificationVars, contentVars>>

\* if config == nil; pgxpool.ParseConfig
NewPoolConfig ==
    /\ newPool.pc = "called"
    /\ PoolStep(IF newPool.config = "nil"
                THEN [newPool EXCEPT !.pc = "returned", !.ret = "ErrNilConfig"]
                ELSE IF newPool.config = "unparsable"
                THEN [newPool EXCEPT !.pc = "returned", !.ret = "ErrPoolConfigParse"]
                ELSE [newPool EXCEPT !.pc = "for"])

\* for i := 0; i <= config.MaxRetries; ...
NewPoolFor ==
    /\ newPool.pc = "for"
    /\ PoolStep(IF newPool.i <= newPool.MaxRetries
                THEN [newPool EXCEPT !.pc = "connect"]
                ELSE [newPool EXCEPT !.pc = "after"])

\* pool, err = pgxpool.NewWithConfig(ctx, pgxConfig): it succeeds or fails.
NewPoolConnect(connected) ==
    /\ newPool.pc = "connect"
    /\ PoolStep(IF connected
                THEN [newPool EXCEPT !.pc = "ping", !.err = "nil", !.pool = "open",
                                     !.attempts = @ + 1, !.unclosed = @ + 1]
                ELSE [newPool EXCEPT !.pc = "retry", !.err = "connect", !.pool = "nil",
                                     !.attempts = @ + 1])

\* err = pool.Ping(ctx); on an error pool.Close(), else break
NewPoolPing(answered) ==
    /\ newPool.pc = "ping"
    /\ PoolStep(IF answered
                THEN [newPool EXCEPT !.pc = "after", !.unclosed = @ - 1]
                ELSE [newPool EXCEPT !.pc = "retry", !.err = "ping", !.pool = "closed",
                                     !.unclosed = @ - 1])

\* if i < config.MaxRetries { time.Sleep(...) } else { break }; i++
NewPoolRetry ==
    /\ newPool.pc = "retry"
    /\ PoolStep(IF newPool.i < newPool.MaxRetries
                THEN [newPool EXCEPT !.pc = "for", !.sleeps = @ + 1, !.i = @ + 1]
                ELSE [newPool EXCEPT !.pc = "after"])

\* if err != nil { return nil, ErrConnectionFailed }; otherwise wrap the
\* pool, customPool.updateActiveConnections() and return it.  On a nil
\* pool the Stat() call inside is pgxpool's to answer: the call panics
\* there or goes on and returns the wrapper of the nil pool.
NewPoolReturn(panics) ==
    /\ newPool.pc = "after"
    /\ PoolStep(IF newPool.err # "nil"
                THEN [newPool EXCEPT !.pc = "returned", !.ret = "ErrConnectionFailed"]
                ELSE IF newPool.pool = "nil" /\ panics
                THEN [newPool EXCEPT !.pc = "panicked"]
                ELSE [newPool EXCEPT !.pc = "returned", !.ret = "nil"])

OthersIdle ==
    /\ mutual = NoMutual
    /\ newPool = NoNewPool

\* ---------------------------------------------------------------- system
NoCall == [op |-> "none", a |-> NoUser, b |-> NoUser, res |-> "ok",
           pab |-> NoRow, pba |-> NoRow, others |-> TRUE]

Init ==
    /\ user_friendships = [k \in Keys |-> NoRow]
    /\ tx = [t \in Callers |-> Idle]
    /\ last = NoCall
    /\ returned = [t \in Callers |-> "free"]
    /\ NotificationsIdle
    /\ OthersIdle
    /\ ContentIdle

Next ==
    \/ \E a, b \in Users : SendRequest(a, b)
    \/ \E a, b \in Users : RejectRequest(a, b)
    \/ \E a, b \in Users : UnfriendCall(a, b)
    \/ \E a, b \in Users : Block(a, b)
    \/ \E a, b \in Users : Unblock(a, b)
    \/ \E t \in Callers : \E a, b \in Users : AcceptUpdate(t, a, b)
    \/ \E t \in Callers : AcceptInsert(t)
    \/ \E t \in Callers : AcceptCommit(t)
    \/ \E t \in Callers : AcceptAbort(t)

Spec == Init /\ [][Next]_vars

\* Two (NumCallers) concurrent AcceptRequest calls on one pending request:
\* every worker has been handed the same call AcceptRequest(requester,
\* accepter) and nothing else runs.
InitAccept2 ==
    \E r, a \in Users :
        /\ r # a
        /\ \E x \in Statuses \cup {NoRow} :
             user_friendships = [k \in Keys |->
                 IF k = <<r, a>> THEN "pending" ELSE IF k = <<a, r>> THEN x ELSE NoRow]
        /\ tx = [t \in Callers |-> [pc |-> "called", requester |-> r, accepter |-> a]]
        /\ last = NoCall
        /\ returned = [t \in Callers |-> "calling"]
        /\ NotificationsIdle
        /\ OthersIdle
        /\ ContentIdle

NextAccept2 ==
    \/ \E t \in Callers : AcceptUpdate(t, tx[t].requester, tx[t].accepter)
    \/ \E t \in Callers : AcceptInsert(t)
    \/ \E t \in Callers : AcceptCommit(t)
    \/ \E t \in Callers : AcceptAbort(t)

SpecAccept2 == InitAccept2 /\ [][NextAccept2]_vars

\* The notification calls of any callers, Notify calls one after another.
NextNotifications ==
    \/ \E t \in Callers : \E c \in NotifyCalls : NotifyIdle /\ NotifyCheck(t, c)
    \/ \E t \in Callers : NotifyInsert(t)
    \/ \E id \in NotificationIds : \E r \in Users : MarkRead(id, r)
    \/ \E r \in Users : MarkAllRead(r)
    \/ \E id \in NotificationIds : \E r \in Users : DeleteOne(id, r)
    \/ \E r \in Users : \E days \in 0..MaxDays : Purge(r, days)
    \/ Tick

SpecNotifications == Init /\ [][NextNotifications]_vars

\* The like calls of any members on a store of one post or more.
InitLikes ==
    /\ user_friendships = [k \in Keys |-> NoRow]
    /\ tx = [t \in Callers |-> Idle]
    /\ last = NoCall
    /\ returned = [t \in Callers |-> "free"]
    /\ NotificationsIdle
    /\ OthersIdle
    /\ \E n \in PostIds :
           post = [p \in PostIds |->
                      IF p <= n THEN [owner_id |-> "u1", visibility |-> "public",
                                      created_at |-> 0]
                      ELSE NoPost]
    /\ post_likes = [k \in LikeKeys |-> 0]
    /\ comment = [c \in CommentIds |-> NoComment]
    /\ feed = NoFeed
    /\ lastLike = FinishedLike("none", 0, NoUser, "ok", 0, 0)

NextLikes ==
    \/ \E p \in PostIds : \E u \in Members : Like(p, u)
    \/ \E p \in PostIds : \E u \in Members : Unlike(p, u)

SpecLikes == InitLikes /\ [][NextLikes]_vars

\* GetUserFeed on every store of at most MaxEdges friendship rows among
\* the members and at most MaxPosts posts.  SendRequest and Block reach
\* each of these tables.
MaxEdges == 2

FriendTables ==
    {f \in [Members \X Members -> Statuses \cup {NoRow}] :
        /\ \A m \in Members : f[<<m, m>>] = NoRow
        /\ Cardinality({k \in Members \X Members : f[k] # NoRow}) <= MaxEdges}

PostTables == [PostIds -> PostRows \cup {NoPost}]

InitFeed ==
    /\ user_friendships \in FriendTables
    /\ tx = [t \in Callers |-> Idle]
    /\ last = NoCall
    /\ returned = [t \in Callers |-> "free"]
    /\ NotificationsIdle
    /\ OthersIdle
    /\ post \in PostTables
    /\ post_likes = [k \in LikeKeys |-> 0]
    /\ comment = [c \in CommentIds |-> NoComment]
    /\ feed = NoFeed
    /\ lastLike = FinishedLike("none", 0, NoUser, "ok", 0, 0)

NextFeed ==
    \E user \in Members : \E limit \in 1..MaxPosts : \E offset \in 0..(MaxPosts - 1) :
        FeedCall(user, limit, offset)

SpecFeed == InitFeed /\ [][NextFeed]_vars

\* Notify calls that overlap: a caller may run its duplicate check while
\* another caller stands between its check and its insert.
NextNotify2 ==
    \/ \E t \in Callers : \E c \in NotifyCalls : NotifyCheck(t, c)
    \/ \E t \in Callers : NotifyInsert(t)
    \/ Tick

SpecNotify2 == Init /\ [][NextNotify2]_vars

\* The feed of u1 over every table of likes and of comments on two posts
\* of u1's friend u2.
InitFeedCounts ==
    /\ user_friendships = [k \in Members \X Members |->
                              IF k = <<"u1", "u2">> \/ k = <<"u2", "u1">>
                              THEN "accepted" ELSE NoRow]
    /\ tx = [t \in Callers |-> Idle]
    /\ last = NoCall
    /\ returned = [t \in Callers |-> "free"]
    /\ NotificationsIdle
    /\ OthersIdle
    /\ post = [p \in PostIds |-> [owner_id |-> "u2", visibility |-> "friends",
                                  created_at |-> 0]]
    /\ post_likes \in [LikeKeys -> {0, 1}]
    /\ comment \in [CommentIds -> PostIds \cup {NoComment}]
    /\ feed = NoFeed
    /\ lastLike = FinishedLike("none", 0, NoUser, "ok", 0, 0)

SpecFeedCounts == InitFeedCounts /\ [][NextFeed]_vars

\* Mutual friends over every bounded friendship table.
InitMutual ==
    /\ user_friendships \in FriendTables
    /\ tx = [t \in Callers |-> Idle]
    /\ last = NoCall
    /\ returned = [t \in Callers |-> "free"]
    /\ NotificationsIdle
    /\ OthersIdle
    /\ ContentIdle

NextMutual == \E a, b \in Members : MutualCall(a, b)

SpecMutual == InitMutual /\ [][NextMutual]_vars

\* One NewPool call, for every kind of config and every MaxRetries from
\* -1 up to the default.
InitPool ==
    /\ user_friendships = [k \in Keys |-> NoRow]
    /\ tx = [t \in Callers |-> Idle]
    /\ last = NoCall
    /\ returned = [t \in Callers |-> "free"]
    /\ NotificationsIdle
    /\ ContentIdle
    /\ mutual = NoMutual
    /\ \E config \in {"nil", "unparsable", "valid"} :
           \E retries \in (-1)..DefaultMaxRetries :
               newPool = NewPoolCalled(config, retries)

NextPool ==
    \/ NewPoolConfig
    \/ NewPoolFor
    \/ \E connected \in BOOLEAN : NewPoolConnect(connected)
    \/ \E answered \in BOOLEAN : NewPoolPing(answered)
    \/ NewPoolRetry
    \/ \E panics \in BOOLEAN : NewPoolReturn(panics)

SpecPool == InitPool /\ [][NextPool]_vars

\* ================================================================ claims
\* The outcomes of the store read in the error taxonomy: no_rows is
\* NotFound, unique_violation is Conflict, check_violation is
\* InvariantViolation.

LastWas(op) == last.op = op

\* The pair's rows and every other row are as they were before the last call.
LastChangedNothing ==
    /\ user_friendships[<<last.a, last.b>>] = last.pab
    /\ user_friendships[<<last.b, last.a>>] = last.pba
    /\ last.others

\* C1: in every reachable state an accepted relationship is two rows: row
\* (a,b,accepted) exists if and only if row (b,a,accepted) exists.
AcceptedRowsPaired ==
    \A a, b \in Users :
        a # b => (user_friendships[<<a, b>>] = "accepted"
                    <=> user_friendships[<<b, a>>] = "accepted")

\* C2: when AcceptRequest(a,b) succeeds on the request SendRequest(a,b)
\* made, rows (a,b) and (b,a) are both accepted, so Status(a,b) =
\* Status(b,a) = accepted.
SendThenAcceptBothAccepted ==
    (LastWas("AcceptRequest") /\ last.res = "ok") =>
        /\ last.pab = "pending"
        /\ CheckFriendshipStatus(user_friendships, last.a, last.b) = "accepted"
        /\ CheckFriendshipStatus(user_friendships, last.b, last.a) = "accepted"

SendThenAcceptWitness ==
    /\ LastWas("AcceptRequest") /\ last.res = "ok" /\ last.pab = "pending"
    /\ last.a # last.b
    /\ user_friendships[<<last.a, last.b>>] = "accepted"
    /\ user_friendships[<<last.b, last.a>>] = "accepted"

\* C3 as stated: two concurrent AcceptRequest(a,b) calls on one acceptable
\* pending request, neither abandoned by its caller, both return success
\* and leave row (b,a) accepted.
BothAcceptsSucceed ==
    (/\ \A t \in Callers : returned[t] \in Outcomes \ {"aborted"}
     /\ \E t \in Callers : returned[t] = "ok") =>
        /\ \A t \in Callers : returned[t] = "ok"
        /\ \A t \in Callers : user_friendships[<<tx[t].accepter, tx[t].requester>>] = "accepted"

\* C3 amended: of the concurrent AcceptRequest(a,b) calls on one pending
\* request at most one returns success; when one does, rows (a,b) and (b,a)
\* are accepted and every other call that was not abandoned failed NotFound;
\* and when no call was abandoned and none succeeded, every one of them was
\* refused by a row already standing at (b,a).
OneAcceptSucceeds ==
    /\ Cardinality({t \in Callers : returned[t] = "ok"}) <= 1
    /\ \A t \in Callers :
         returned[t] = "ok" =>
            /\ user_friendships[<<tx[t].requester, tx[t].accepter>>] = "accepted"
            /\ user_friendships[<<tx[t].accepter, tx[t].requester>>] = "accepted"
            /\ \A u \in Callers \ {t} :
                 returned[u] \in Outcomes \ {"aborted"} => returned[u] = "no_rows"
    /\ (/\ \A t \in Callers : returned[t] \in Outcomes \ {"aborted"}
        /\ \A t \in Callers : returned[t] # "ok") =>
            \A t \in Callers :
                /\ returned[t] = "unique_violation"
                /\ user_friendships[<<tx[t].accepter, tx[t].requester>>] # NoRow

OneAcceptSucceedsWitness ==
    \E t, u \in Callers :
        /\ returned[t] = "ok" /\ returned[u] = "no_rows"
        /\ tx[t].requester = tx[u].requester /\ tx[t].accepter = tx[u].accepter
        /\ user_friendships[<<tx[t].accepter, tx[t].requester>>] = "accepted"

AcceptWithoutPendingNotFound ==
    (LastWas("AcceptRequest") /\ last.pab # "pending") =>
        /\ last.res = "no_rows"
        /\ LastChangedNothing

AcceptWithoutPendingWitness ==
    /\ LastWas("AcceptRequest") /\ last.res = "no_rows"
    /\ last.a # last.b
    /\ last.pab = "accepted" /\ last.pba = "accepted"
    /\ LastChangedNothing

\* C6: SendRequest(requester, recipient) fails Conflict and changes nothing
\* whenever a row exists for (requester,recipient) or (recipient,requester);
\* otherwise it inserts the one row (requester,recipient,pending).
SendConflictsOnEitherRow ==
    (LastWas("SendRequest") /\ last.a # last.b) =>
        IF last.pab # NoRow \/ last.pba # NoRow
        THEN last.res = "unique_violation" /\ LastChangedNothing
        ELSE /\ last.res = "ok"
             /\ user_friendships[<<last.a, last.b>>] = "pending"
             /\ user_friendships[<<last.b, last.a>>] = last.pba
             /\ last.others

\* C7: Unfriend(a,b) with rows (a,b) and (b,a) both accepted removes both.
UnfriendRemovesBoth ==
    (LastWas("Unfriend") /\ last.pab = "accepted" /\ last.pba = "accepted") =>
        /\ last.res = "ok"
        /\ CheckFriendshipStatus(user_friendships, last.a, last.b) = NoRow
        /\ CheckFriendshipStatus(user_friendships, last.b, last.a) = NoRow
        /\ last.others

UnfriendRemovesBothWitness ==
    /\ LastWas("Unfriend") /\ last.res = "ok"
    /\ last.pab = "accepted" /\ last.pba = "accepted"
    /\ user_friendships[<<last.a, last.b>>] = NoRow
    /\ user_friendships[<<last.b, last.a>>] = NoRow

\* C8: Unfriend(a,b) that would remove fewer than two rows, here with only
\* one of the two accepted rows present and no row for the other direction,
\* fails InvariantViolation and changes no row.
UnfriendPartialRefused ==
    (/\ LastWas("Unfriend")
     /\ \/ last.pab = "accepted" /\ last.pba = NoRow
        \/ last.pab = NoRow /\ last.pba = "accepted") =>
        /\ last.res = "check_violation"
        /\ LastChangedNothing

\* C9: Block(a,b) leaves row (b,a) as it was, whatever the pair's rows were.
BlockKeepsReverseRow ==
    LastWas("Block") =>
        CheckFriendshipStatus(user_friendships, last.b, last.a) = last.pba

BlockKeepsReverseRowWitness ==
    /\ LastWas("Block") /\ last.res = "ok"
    /\ last.pab = "accepted" /\ last.pba = "accepted"
    /\ user_friendships[<<last.b, last.a>>] = "accepted"

\* C10: Block(blocker, blocked) between two users succeeds from any status
\* of row (blocker,blocked) and leaves it blocked, and a second identical
\* Block succeeds and leaves the table as it is.
BlockIdempotentUpsert ==
    (LastWas("Block") /\ last.a # last.b) =>
        /\ last.res = "ok"
        /\ user_friendships[<<last.a, last.b>>] = "blocked"
        /\ last.others
        /\ BlockUser(user_friendships, last.a, last.b) = Answer(user_friendships, "ok")

BlockIdempotentUpsertWitness ==
    /\ LastWas("Block") /\ last.res = "ok" /\ last.pab = "blocked"
    /\ user_friendships[<<last.a, last.b>>] = "blocked"

\* C11: Unblock(blocker, blocked) deletes row (blocker,blocked) exactly when
\* its status is blocked; on an absent, pending or accepted row it changes
\* nothing; row (blocked,blocker) and every other row stay as they were.
UnblockOnlyBlocked ==
    LastWas("Unblock") =>
        /\ IF last.pab = "blocked"
           THEN last.res = "ok" /\ user_friendships[<<last.a, last.b>>] = NoRow
           ELSE last.res = "no_rows" /\ user_friendships[<<last.a, last.b>>] = last.pab
        /\ last.a # last.b => user_friendships[<<last.b, last.a>>] = last.pba
        /\ last.others

UnblockOnlyBlockedWitness ==
    /\ LastWas("Unblock") /\ last.res = "ok" /\ last.pab = "blocked"
    /\ last.pba = "accepted"
    /\ user_friendships[<<last.a, last.b>>] = NoRow
    /\ user_friendships[<<last.b, last.a>>] = "accepted"

\* C12: RejectRequest(a,b) deletes the pending row (a,b) and no other row;
\* without a pending row (a,b) it reports NotFound and changes no row.
RejectOnlyPending ==
    LastWas("RejectRequest") =>
        /\ IF last.pab = "pending"
           THEN last.res = "ok" /\ user_friendships[<<last.a, last.b>>] = NoRow
           ELSE last.res = "no_rows" /\ user_friendships[<<last.a, last.b>>] = last.pab
        /\ last.a # last.b => user_friendships[<<last.b, last.a>>] = last.pba
        /\ last.others

RejectOnlyPendingWitness ==
    /\ LastWas("RejectRequest") /\ last.res = "ok" /\ last.pab = "pending"
    /\ last.pba = "blocked"
    /\ user_friendships[<<last.a, last.b>>] = NoRow
    /\ user_friendships[<<last.b, last.a>>] = "blocked"

\* C13: no reachable table holds a row of a user with themselves:
\* SendRequest(a,a) fails with InvariantViolation and writes nothing, and
\* Block(a,a) and AcceptRequest(a,a) create no such row either.
NoSelfFriendship ==
    /\ \A a \in Users : user_friendships[<<a, a>>] = NoRow
    /\ (LastWas("SendRequest") /\ last.a = last.b) =>
           last.res = "check_violation" /\ LastChangedNothing
    /\ (last.op \in {"Block", "AcceptRequest"} /\ last.a = last.b) =>
           last.res # "ok" /\ LastChangedNothing

NoSelfFriendshipWitness ==
    /\ LastWas("SendRequest") /\ last.a = last.b /\ last.res = "check_violation"
    /\ \E k \in Keys : user_friendships[k] # NoRow

\* C14: two Notify calls within the deduplication window with identical
\* (recipient, actor, type, referenceId) store one notification: no two
\* stored notifications of one such key were created less than DedupHours
\* apart, read or unread.
NotifyTwiceStoresOne ==
    \A i, j \in Stored(notification) :
        (/\ i # j
         /\ notification[i].recipient_user_id = notification[j].recipient_user_id
         /\ notification[i].actor_user_id = notification[j].actor_user_id
         /\ notification[i].type = notification[j].type
         /\ notification[i].reference_id = notification[j].reference_id
         /\ notification[i].created_at <= notification[j].created_at)
        => notification[j].created_at - notification[i].created_at >= DedupHours

\* C15: Purge(recipient, olderThan) deletes only rows of that recipient
\* that are read and older than the cutoff when the delete runs, between
\* any other notification calls; every other row stays as it was.
PurgeOnlyReadAged ==
    [][\A r \in Users : \A days \in 0..MaxDays :
         Purge(r, days) =>
             \A i \in NotificationIds :
                 notification'[i] # notification[i] =>
                     /\ notification[i] # NoNotification
                     /\ notification'[i] = NoNotification
                     /\ notification[i].recipient_user_id = r
                     /\ notification[i].is_read
                     /\ notification[i].created_at < now - HoursPerDay * days]_vars

PurgeOnlyReadAgedWitness ==
    /\ lastN.op = "Purge" /\ lastN.changed = 1
    /\ \E i \in Stored(notification) :
           /\ notification[i].recipient_user_id = lastN.recipient
           /\ notification[i].is_read
           /\ notification[i].created_at = now

\* C16: MarkRead(id, r), MarkAllRead(r) and the delete (id, r) leave every
\* notification of another recipient as it was, and MarkRead(id, r) on a
\* row of another recipient fails.
OnlyOwnNotifications ==
    [][\A r \in Users : \A id \in NotificationIds :
         (MarkRead(id, r) \/ MarkAllRead(r) \/ DeleteOne(id, r)) =>
             /\ \A i \in Stored(notification) :
                    notification[i].recipient_user_id # r =>
                        notification'[i] = notification[i]
             /\ (/\ MarkRead(id, r)
                 /\ notification[id] # NoNotification
                 /\ notification[id].recipient_user_id # r) => lastN'.res = "no_rows"]_vars

OnlyOwnNotificationsWitness ==
    /\ lastN.op = "MarkRead" /\ lastN.res = "no_rows"
    /\ notification[lastN.id] # NoNotification
    /\ notification[lastN.id].recipient_user_id # lastN.recipient
    /\ ~notification[lastN.id].is_read

\* C17: MarkRead and MarkAllRead applied a second time leave every row as
\* the first application left it and report what the first reported (no
\* error after a success); after MarkAllRead(recipient) the recipient's
\* unread count is 0.
MarkReadIdempotent ==
    /\ lastN.op = "MarkRead" =>
           MarkNotificationAsRead(notification, lastN.id, lastN.recipient)
               = Answer(notification, lastN.res)
    /\ lastN.op = "MarkAllRead" =>
           /\ lastN.res = "ok"
           /\ MarkAllNotificationsAsRead(notification, lastN.recipient)
                  = Answer(notification, "ok")
           /\ GetUnreadNotificationCount(notification, lastN.recipient) = 0

MarkReadIdempotentWitness ==
    /\ lastN.op = "MarkRead" /\ lastN.res = "ok" /\ lastN.changed = 0
    /\ notification[lastN.id].is_read
    /\ notification[lastN.id].recipient_user_id = lastN.recipient

\* C18: FriendFeed(user, limit, offset) returns no private post, and the
\* posts it returns are in non-increasing order of created_at.
FeedNoPrivateSorted ==
    /\ \A i \in 1..Len(feed.rows) : post[feed.rows[i]].visibility # "private"
    /\ \A i, j \in 1..Len(feed.rows) :
           i < j => post[feed.rows[i]].created_at >= post[feed.rows[j]].created_at

FeedNoPrivateSortedWitness ==
    /\ Len(feed.rows) = 1
    /\ \E p \in PostsStored(post) :
           /\ post[p].visibility = "private"
           /\ post[p].owner_id = post[feed.rows[1]].owner_id
           /\ user_friendships[<<feed.user, post[p].owner_id>>] = "accepted"

\* C19: FriendFeed(user) returns a post only if Status(user, author) is
\* accepted and the post is public or for friends, and a whole page holds
\* every such post: after A's request to B is accepted, A's post for
\* friends is in B's feed and in the feed of no user without an accepted
\* row to A, a pending requester included.
FeedOnlyAcceptedFriends ==
    /\ \A i \in 1..Len(feed.rows) :
           /\ CheckFriendshipStatus(user_friendships, feed.user,
                                    post[feed.rows[i]].owner_id) = "accepted"
           /\ post[feed.rows[i]].visibility \in {"public", "friends"}
    /\ \A user \in Members :
           \A rows \in GetUserFeed(user_friendships, post, user, MaxPosts, 0) :
               {rows[i] : i \in 1..Len(rows)}
                   = {p \in PostsStored(post) :
                         /\ CheckFriendshipStatus(user_friendships, user,
                                                  post[p].owner_id) = "accepted"
                         /\ post[p].visibility \in {"public", "friends"}}

FeedOnlyAcceptedFriendsWitness ==
    \E a \in Members : \E c \in Members \ {a, feed.user} :
        /\ feed.user \in Members
        /\ user_friendships[<<a, feed.user>>] = "accepted"
        /\ user_friendships[<<feed.user, a>>] = "accepted"
        /\ \E i \in 1..Len(feed.rows) :
               /\ post[feed.rows[i]].owner_id = a
               /\ post[feed.rows[i]].visibility = "friends"
        /\ GetUserFeed(user_friendships, post, c, MaxPosts, 0) = {<<>>}

\* C20: a user liking a post a second time, in any order with the likes
\* of others, leaves one like row of that user on the post and the post's
\* like count as it was.
LikeIdempotent ==
    /\ \A k \in LikeKeys : post_likes[k] <= 1
    /\ (lastLike.op = "Like" /\ lastLike.res # "foreign_key_violation") =>
           /\ post_likes[<<lastLike.post_id, lastLike.user_id>>] = 1
           /\ lastLike.had > 0 =>
                  GetPostLikeCount(post_likes, lastLike.post_id) = lastLike.count

LikeIdempotentWitness ==
    /\ lastLike.op = "Like" /\ lastLike.had = 1 /\ lastLike.count = 2
    /\ post_likes[<<lastLike.post_id, lastLike.user_id>>] = 1
    /\ GetPostLikeCount(post_likes, lastLike.post_id) = 2

\* C24: a pending relationship is one row: of SendRequest(a,b) and
\* SendRequest(b,a) on a pair without rows at most one succeeds, and rows
\* (a,b,pending) and (b,a,pending) stand together in no reachable state.
PendingOneRow ==
    \A a, b \in Users :
        ~(user_friendships[<<a, b>>] = "pending" /\ user_friendships[<<b, a>>] = "pending")

\* C25: an AcceptRequest(requester, accepter) that returns success leaves
\* both rows accepted; with a row already at (accepter,requester), blocked
\* or pending, the call does not return success and changes nothing.
AcceptSuccessBothAccepted ==
    LastWas("AcceptRequest") =>
        /\ last.res = "ok" =>
               /\ user_friendships[<<last.a, last.b>>] = "accepted"
               /\ user_friendships[<<last.b, last.a>>] = "accepted"
        /\ last.pba \in {"blocked", "pending"} =>
               last.res # "ok" /\ LastChangedNothing

AcceptSuccessBothAcceptedWitness ==
    /\ LastWas("AcceptRequest") /\ last.res = "unique_violation"
    /\ last.pab = "pending" /\ last.pba = "blocked"
    /\ user_friendships[<<last.a, last.b>>] = "pending"
    /\ user_friendships[<<last.b, last.a>>] = "blocked"

\* C26: Unfriend(a,b) removes accepted rows only: a pending or blocked row
\* at (a,b) or (b,a) is there after the call as it was before.
UnfriendOnlyAccepted ==
    LastWas("Unfriend") =>
        /\ last.pab \in {"pending", "blocked"} =>
               user_friendships[<<last.a, last.b>>] = last.pab
        /\ last.pba \in {"pending", "blocked"} =>
               user_friendships[<<last.b, last.a>>] = last.pba

\* C23  GetMutualFriends(a, b) returns exactly the users x with an accepted
\* row (a, x) and an accepted row (b, x); a user reached through a pending or
\* blocked row is not in it.
AcceptedOf(a) == {x \in Members : user_friendships[<<a, x>>] = "accepted"}

MutualIsIntersection ==
    mutual.a # NoUser => mutual.users = AcceptedOf(mutual.a) \cap AcceptedOf(mutual.b)

MutualIsIntersectionWitness ==
    /\ mutual.a # NoUser
    /\ mutual.a # mutual.b
    /\ mutual.users = {}
    /\ \E x \in Members :
           /\ user_friendships[<<mutual.a, x>>] = "accepted"
           /\ user_friendships[<<mutual.b, x>>] \in {"pending", "blocked"}

\* C30  A NewPool call that got past its config ends after at most
\* MaxRetries + 1 attempts; it returns a nil error only with an open pool
\* that connected and answered the ping, otherwise ErrConnectionFailed after
\* exactly MaxRetries + 1 attempts, every opened pool closed, one sleep
\* between attempts and none after the last; it never panics and never
\* returns a nil error with a nil pool, whatever MaxRetries is.
NewPoolBounded ==
    newPool.config = "valid" =>
        /\ newPool.attempts <= newPool.MaxRetries + 1
        /\ newPool.pc # "panicked"
        /\ newPool.pc = "returned" =>
               /\ newPool.ret \in {"nil", "ErrConnectionFailed"}
               /\ newPool.unclosed = 0
               /\ newPool.ret = "nil" =>
                      /\ newPool.pool = "open"
                      /\ newPool.sleeps = newPool.attempts - 1
               /\ newPool.ret = "ErrConnectionFailed" =>
                      /\ newPool.attempts = newPool.MaxRetries + 1
                      /\ newPool.sleeps = newPool.MaxRetries

\* C21  The friend feed is deterministic: once a user has read the feed,
\* any two calls of that user with one limit and one offset on this store
\* return the same sequence, and the pages at offsets 0 and 1 of limit 1
\* never show one post twice.
FeedDeterministic ==
    feed.user \in Members =>
        /\ \A limit \in 1..MaxPosts : \A offset \in 0..(MaxPosts - 1) :
               \A r1, r2 \in GetUserFeed(user_friendships, post, feed.user, limit, offset) :
                   r1 = r2
        /\ \A r1 \in GetUserFeed(user_friendships, post, feed.user, 1, 0) :
               \A r2 \in GetUserFeed(user_friendships, post, feed.user, 1, 1) :
                   r1 = <<>> \/ r1 # r2

\* C27  The friend feed never returns a post of an author who has blocked
\* the reader or whom the reader has blocked.
FeedNoBlocked ==
    feed.user \in Members =>
        \A i \in 1..Len(feed.rows) :
            /\ user_friendships[<<post[feed.rows[i]].owner_id, feed.user>>] # "blocked"
            /\ user_friendships[<<feed.user, post[feed.rows[i]].owner_id>>] # "blocked"

\* C28  Concurrent Notify calls with one (recipient, actor, type,
\* referenceId), the reference id present, store one notification inside
\* the deduplication window, however their checks and inserts interleave.
ConcurrentNotifyStoresOne ==
    \A i, j \in Stored(notification) :
        (/\ i # j
         /\ notification[i].recipient_user_id = notification[j].recipient_user_id
         /\ notification[i].actor_user_id = notification[j].actor_user_id
         /\ notification[i].type = notification[j].type
         /\ SqlEquals(notification[i].reference_id, notification[j].reference_id)
         /\ notification[i].created_at <= notification[j].created_at)
        => notification[j].created_at - notification[i].created_at >= DedupHours

\* C29  Notify calls with one (recipient, actor, type) and no reference id
\* store one notification inside the deduplication window.
NotifyNullRefStoresOne ==
    \A i, j \in Stored(notification) :
        (/\ i # j
         /\ notification[i].recipient_user_id = notification[j].recipient_user_id
         /\ notification[i].actor_user_id = notification[j].actor_user_id
         /\ notification[i].type = notification[j].type
         /\ notification[i].reference_id = NullRef
         /\ notification[j].reference_id = NullRef
         /\ notification[i].created_at <= notification[j].created_at)
        => notification[j].created_at - notification[i].created_at >= DedupHours

\* C22  For every post the friend feed returns, like_count is the number
\* of users with a like row on the post, comment_count is the number of
\* comments on the post, each whatever the other is, and
\* liked_by_current_user says whether the reader has a like row on it.
FeedCountsExact ==
    feed.user \in Members =>
        \A i \in 1..Len(feed.rows) :
            /\ feed.columns[i].like_count =
                   Cardinality({u \in Members : post_likes[<<feed.rows[i], u>>] > 0})
            /\ feed.columns[i].comment_count =
                   Cardinality({c \in CommentIds : comment[c] = feed.rows[i]})
            /\ feed.columns[i].liked_by_current_user
                   <=> post_likes[<<feed.rows[i], feed.user>>] > 0

FeedCountsExactWitness ==
    /\ feed.user \in Members
    /\ \E i \in 1..Len(feed.rows) :
           /\ feed.columns[i].like_count = Cardinality(Members)
           /\ feed.columns[i].comment_count = MaxComments
           /\ feed.columns[i].liked_by_current_user

====
